---- MODULE Spec2Model ----
(***************************************************************************)
(* kubectl-cond: the run over the visited objects (runFunc), the rendering *)
(* of one object (printObject: extraction of status.conditions, decoding   *)
(* into GenericCondition, ranking with sort.Slice and byCondition, header  *)
(* and table rows), the polarity normalisation (invertPolarity), and the   *)
(* details column of a row (formatConditionDetails, wrapString).           *)
(***************************************************************************)
EXTENDS Integers, Sequences, FiniteSets

VARIABLES pc, total, visited, obj, i, condElems, perm, ret, stdout, table, errs,
          noColor, theCond, detail

vars == <<pc, total, visited, obj, i, condElems, perm, ret, stdout, table, errs,
          noColor, theCond, detail>>

\* color.NoColor, and the argument and the result of formatConditionDetails
fmtVars == <<noColor, theCond, detail>>

(***************************************************************************)
(* Bounds of the model.                                                    *)
(***************************************************************************)
\* objects the resource visitor yields in one run
MaxObjects == 2
\* entries of status.conditions of an object of the run
MaxConds == 2
\* entries of the condition list handed to the ranking alone
MaxRank == 3
\* instants 1..MaxTime are the timestamps that occur; instant 0 is metav1.Time{}
MaxTime == 2

(***************************************************************************)
(* metav1.ConditionStatus and the package-level set of main.go.            *)
(***************************************************************************)
ConditionTrue == "True"

ConditionFalse == "False"

ConditionUnknown == "Unknown"

negativePolarityNodeConditions ==
    {"MemoryPressure", "DiskPressure", "NetworkUnavailable", "PIDPressure",
     "ReadonlyFilesystem", "KernelDeadlock", "FrequentKubeletRestart",
     "FrequentDockerRestart", "FrequentContainerdRestart", "KubeletUnhealthy",
     "ContainerRuntimeUnhealthy"}

\* invertPolarity without the guard on Unknown
invertPolarityNoUnknownGuard(condType, status) ==
    IF condType \notin negativePolarityNodeConditions
    THEN status
    ELSE IF status = ConditionTrue THEN ConditionFalse ELSE ConditionTrue

invertPolarity(condType, status) ==
    IF status = ConditionUnknown \/ condType \notin negativePolarityNodeConditions
    THEN status
    ELSE IF status = ConditionTrue THEN ConditionFalse ELSE ConditionTrue

(***************************************************************************)
(* Time pointers: <<>> is the nil *metav1.Time, <<t>> points at instant t. *)
(***************************************************************************)
NilTime == <<>>

\* metav1.Time{}: the zero instant
ZeroTime == 0

Deref(p, def) == IF p = NilTime THEN def ELSE p[1]

\* the "last time it got changed" of rule 3: lastUpdateTime, else
\* lastTransitionTime, else the zero instant
changedAt(c) == Deref(c.LastUpdateTime, Deref(c.LastTransitionTime, ZeroTime))

\* typePriority with the two named types exchanged
typePrioritySwapped(t) ==
    CASE t = "Ready" -> -1
      [] t = "Succeeded" -> -2
      [] OTHER -> 0

\* the typePriority map of byCondition; a missing key reads as 0
typePriority(t) ==
    CASE t = "Ready" -> -2
      [] t = "Succeeded" -> -1
      [] OTHER -> 0

\* the statusOrder map of byCondition; a missing key reads as 0
statusOrder(s) ==
    CASE s = ConditionFalse -> 0
      [] s = ConditionUnknown -> 1
      [] s = ConditionTrue -> 2
      [] OTHER -> 0

\* byCondition comparing the raw status, without invertPolarity
byConditionRawStatus(a, b) ==
    IF typePriority(a.Type) # typePriority(b.Type)
    THEN typePriority(a.Type) < typePriority(b.Type)
    ELSE IF a.Status # b.Status
         THEN statusOrder(a.Status) < statusOrder(b.Status)
         ELSE changedAt(a) > changedAt(b)

byCondition(a, b) ==
    LET priI == typePriority(a.Type)
        priJ == typePriority(b.Type)
        iStatus == invertPolarity(a.Type, a.Status)
        jStatus == invertPolarity(b.Type, b.Status)
    IN  IF priI # priJ
        THEN priI < priJ
        ELSE IF iStatus # jStatus
             THEN statusOrder(iStatus) < statusOrder(jStatus)
             ELSE changedAt(a) > changedAt(b)

(***************************************************************************)
(* sort.Slice(condElems, less).  The library sorts in place by comparing   *)
(* and swapping; on return no element is less than its predecessor, and    *)
(* the order of elements that less does not separate is not specified      *)
(* ("The sort is not guaranteed to be stable").  An outcome is the         *)
(* permutation p of the positions: slot k of the result holds s[p[k]].     *)
(***************************************************************************)
MaxSlots == IF MaxRank > MaxConds THEN MaxRank ELSE MaxConds

Perms ==
    [n \in 0..MaxSlots |->
        {p \in [1..n -> 1..n] : \A a, b \in 1..n : a # b => p[a] # p[b]}]

PermsOf(n) == Perms[n]

Permute(s, p) == [k \in 1..Len(s) |-> s[p[k]]]

sortSlice(s) ==
    {p \in PermsOf(Len(s)) :
        \A k \in 1..(Len(s) - 1) : ~byCondition(s[p[k + 1]], s[p[k]])}

(***************************************************************************)
(* The decoded JSON values of an unstructured object.  A value is missing  *)
(* (or null), a string, or of another JSON type; a string is either plain  *)
(* text or the RFC 3339 text of instant t.                                 *)
(***************************************************************************)
Missing == [k |-> "missing", s |-> "", t |-> 0]

Str(x) == [k |-> "string", s |-> x, t |-> 0]

Num == [k |-> "number", s |-> "", t |-> 0]

TimeStr(n) == [k |-> "string", s |-> "rfc3339", t |-> n]

\* an element of status.conditions that is no map[string]any
NotAMap ==
    [isMap |-> FALSE, type |-> Missing, status |-> Missing,
     lastUpdateTime |-> Missing, lastTransitionTime |-> Missing]

CondMap(ty, st, up, tr) ==
    [isMap |-> TRUE, type |-> ty, status |-> st,
     lastUpdateTime |-> up, lastTransitionTime |-> tr]

\* json.Unmarshal into a string (or metav1.ConditionStatus) field: a missing
\* or null value leaves "", a string is taken as it is, anything else fails
stringOk(v) == v.k \in {"missing", "string"}

stringOf(v) == IF v.k = "string" THEN v.s ELSE ""

\* a time field that must be present
timeOkRequired(v) == v.k = "string" /\ v.s = "rfc3339"

\* json.Unmarshal into a *metav1.Time field: missing or null leaves nil, a
\* string must parse as RFC 3339
timeOk(v) == v.k = "missing" \/ (v.k = "string" /\ v.s = "rfc3339")

timeOf(v) == IF v.k = "missing" THEN NilTime ELSE <<v.t>>

\* json.Unmarshal(b, &c) returns no error
unmarshalOk(m) ==
    /\ stringOk(m.type)
    /\ stringOk(m.status)
    /\ timeOk(m.lastUpdateTime)
    /\ timeOk(m.lastTransitionTime)

\* the GenericCondition that json.Unmarshal fills in
GenericCondition(m) ==
    [Type |-> stringOf(m.type), Status |-> stringOf(m.status),
     LastUpdateTime |-> timeOf(m.lastUpdateTime),
     LastTransitionTime |-> timeOf(m.lastTransitionTime)]

(***************************************************************************)
(* The inputs.  An object of the run carries its kind, namespace and name  *)
(* and the value found at status.conditions.                               *)
(***************************************************************************)
\* sequences over S of length 0..n
SeqsUpTo(S, n) == UNION {[1..m -> S] : m \in 0..n}

\* the condition entries of the objects of a run: every kind of status
\* value, and on the Ready=True entries every kind of lastUpdateTime value
RawElems ==
    {NotAMap} \cup
    {m \in {CondMap(Str(ty), st, up, Missing) :
                ty \in {"Ready", "MemoryPressure"},
                st \in {Str("True"), Str("False"), Str("Unknown"), Str("Bogus"),
                        Missing, Num},
                up \in {Missing, TimeStr(1), Str("yesterday")}} :
        \/ m.lastUpdateTime = Missing
        \/ (m.type = Str("Ready") /\ m.status = Str("True"))}

\* what unstructured.NestedSlice can find at status.conditions
RawConditions ==
    {[shape |-> "absent", elems |-> <<>>], [shape |-> "notslice", elems |-> <<>>]}
    \cup {[shape |-> "slice", elems |-> e] : e \in SeqsUpTo(RawElems, MaxConds)}

\* the k-th object the visitor yields: Pods are namespaced, Nodes are not
Info(k, conds) ==
    [kind |-> IF k % 2 = 1 THEN "Pod" ELSE "Node",
     namespace |-> IF k % 2 = 1 THEN "default" ELSE "",
     name |-> k,
     conditions |-> conds]

\* the condition entries handed to the ranking: every type with every
\* status string the decoder lets through, without timestamps; and the
\* Available=True and Available=False entries also with a
\* lastTransitionTime at instant 1, alone or under a lastUpdateTime at
\* instant MaxTime
RankElems ==
    {m \in {CondMap(Str(ty), Str(st), up, tr) :
                ty \in {"Ready", "Succeeded", "Available", "MemoryPressure"},
                st \in {"True", "False", "Unknown", "Bogus"},
                up \in {Missing, TimeStr(MaxTime)},
                tr \in {Missing, TimeStr(1)}} :
        \/ (m.lastUpdateTime = Missing /\ m.lastTransitionTime = Missing)
        \/ /\ m.type = Str("Available")
           /\ m.status \in {Str("True"), Str("False")}
           /\ m.lastTransitionTime = TimeStr(1)}

NoError == <<>>

\* no object is being printed
NoObject == Info(0, [shape |-> "absent", elems |-> <<>>])

\* no condition is being formatted
NoCondition == <<>>

(***************************************************************************)
(* Init: runFunc has built the visitor over the total objects the builder  *)
(* resolved, and nothing has been visited.                                 *)
(***************************************************************************)
Init ==
    /\ pc = "visit"
    /\ total \in 0..MaxObjects
    /\ visited = 0
    /\ obj = NoObject
    /\ i = 0
    /\ condElems = <<>>
    /\ perm = <<>>
    /\ ret = NoError
    /\ stdout = <<>>
    /\ table = <<>>
    /\ errs = <<>>
    /\ noColor = FALSE
    /\ theCond = NoCondition
    /\ detail = <<>>

(***************************************************************************)
(* runFunc: the visitor built with ContinueOnError() calls the function    *)
(* literal for each object in turn.                                        *)
(***************************************************************************)
\* the visitor yields the next object and the literal calls printObject
Visit ==
    /\ pc = "visit"
    /\ visited < total
    /\ \E conds \in RawConditions : obj' = Info(visited + 1, conds)
    /\ visited' = visited + 1
    /\ pc' = "extract"
    /\ UNCHANGED <<total, i, condElems, perm, ret, stdout, table, errs>>
    /\ UNCHANGED fmtVars

\* the visitor has no further object: Visit returns the collected errors
VisitDone ==
    /\ pc = "visit"
    /\ visited = total
    /\ pc' = "done"
    /\ UNCHANGED <<total, visited, obj, i, condElems, perm, ret, stdout, table, errs>>
    /\ UNCHANGED fmtVars

(***************************************************************************)
(* printObject.  i is the index of the decoding loop (from 0, as in the    *)
(* error texts); ret is the error printObject returns.                     *)
(***************************************************************************)
Fail(e) ==
    /\ ret' = e
    /\ pc' = "returned"
    /\ UNCHANGED <<total, visited, obj, i, condElems, perm, stdout, table, errs>>
    /\ UNCHANGED fmtVars

\* NestedSlice reports an error: the value is no []interface{}
ExtractNotSlice ==
    /\ pc = "extract"
    /\ obj.conditions.shape = "notslice"
    /\ Fail(<<"failed to extract conditions from object">>)

\* NestedSlice finds nothing at status.conditions
ExtractNotFound ==
    /\ pc = "extract"
    /\ obj.conditions.shape = "absent"
    /\ Fail(<<"no status.conditions[] found in object">>)

\* an extraction that prints the header line before it decodes
ExtractFoundHeaderFirst ==
    /\ pc = "extract"
    /\ obj.conditions.shape = "slice"
    /\ condElems' = <<>>
    /\ i' = 0
    /\ pc' = "decode"
    /\ stdout' = Append(stdout, [obj |-> obj.name, what |-> "header",
                                 text |-> <<obj.kind, obj.namespace, obj.name>>])
    /\ UNCHANGED <<total, visited, obj, perm, ret, table, errs>>
    /\ UNCHANGED fmtVars

\* the slice is found: condElems := make([]GenericCondition, 0, len(conditions))
ExtractFound ==
    /\ pc = "extract"
    /\ obj.conditions.shape = "slice"
    /\ condElems' = <<>>
    /\ i' = 0
    /\ pc' = "decode"
    /\ UNCHANGED <<total, visited, obj, perm, ret, stdout, table, errs>>
    /\ UNCHANGED fmtVars

\* an entry that is no map ends printObject
DecodeNotAMap ==
    /\ pc = "decode"
    /\ i < Len(obj.conditions.elems)
    /\ ~obj.conditions.elems[i + 1].isMap
    /\ Fail(<<"failed to convert condition#%d to map", i>>)

\* an entry that json.Unmarshal rejects ends printObject
DecodeUnmarshalError ==
    /\ pc = "decode"
    /\ i < Len(obj.conditions.elems)
    /\ obj.conditions.elems[i + 1].isMap
    /\ ~unmarshalOk(obj.conditions.elems[i + 1])
    /\ Fail(<<"failed to unmarshal condition#%d", i>>)

\* condElems = append(condElems, c)
DecodeAppend ==
    /\ pc = "decode"
    /\ i < Len(obj.conditions.elems)
    /\ obj.conditions.elems[i + 1].isMap
    /\ unmarshalOk(obj.conditions.elems[i + 1])
    /\ condElems' = Append(condElems, GenericCondition(obj.conditions.elems[i + 1]))
    /\ i' = i + 1
    /\ UNCHANGED <<pc, total, visited, obj, perm, ret, stdout, table, errs>>
    /\ UNCHANGED fmtVars

\* the range loop is over
DecodeDone ==
    /\ pc = "decode"
    /\ i = Len(obj.conditions.elems)
    /\ pc' = "sort"
    /\ UNCHANGED <<total, visited, obj, i, condElems, perm, ret, stdout, table, errs>>
    /\ UNCHANGED fmtVars

\* sort.Slice(condElems, byCondition); perm records where each slot came from
Sort ==
    /\ pc = "sort"
    /\ \E p \in sortSlice(condElems) :
          /\ condElems' = Permute(condElems, p)
          /\ perm' = p
    /\ pc' = "print"
    /\ UNCHANGED <<total, visited, obj, i, ret, stdout, table, errs>>
    /\ UNCHANGED fmtVars

\* statusColor: the colour of the polarity-corrected status
statusColor(condType, status) ==
    LET st == invertPolarity(condType, status)
    IN  CASE st = ConditionTrue -> "green"
          [] st = ConditionFalse -> "red"
          [] st = ConditionUnknown -> "gray"
          [] OTHER -> "gray"

\* the row printConditions appends for one condition; the label is the
\* colorized type over the raw status in parentheses
Row(cond) ==
    [color |-> statusColor(cond.Type, cond.Status),
     type |-> cond.Type,
     status |-> cond.Status]

\* the header line of an object
Header(o) == [obj |-> o.name, what |-> "header",
              text |-> <<o.kind, o.namespace, o.name>>]

\* the rendered table of an object
Rendered(o) == [obj |-> o.name, what |-> "table", text |-> <<>>]

\* the metadata is read, the header line is printed, printConditions builds
\* and renders the table, and printObject returns nil
Render ==
    /\ pc = "print"
    /\ table' = [k \in 1..Len(condElems) |-> Row(condElems[k])]
    /\ stdout' = stdout \o <<Header(obj), Rendered(obj)>>
    /\ ret' = NoError
    /\ pc' = "returned"
    /\ UNCHANGED <<total, visited, obj, i, condElems, perm, errs>>
    /\ UNCHANGED fmtVars

\* the error the function literal returns for a failed printObject
PrintError(o, e) ==
    [kind |-> o.kind, namespace |-> o.namespace, name |-> o.name, err |-> e]

\* a visitor without ContinueOnError: the first error ends the run
ReturnedStopOnError ==
    /\ pc = "returned"
    /\ errs' = IF ret # NoError THEN Append(errs, PrintError(obj, ret)) ELSE errs
    /\ pc' = IF ret # NoError THEN "done" ELSE "visit"
    /\ obj' = NoObject
    /\ i' = 0
    /\ condElems' = <<>>
    /\ perm' = <<>>
    /\ table' = <<>>
    /\ ret' = NoError
    /\ UNCHANGED <<total, visited, stdout>>
    /\ UNCHANGED fmtVars

\* the literal wraps printObject's error with the object's identity; the
\* ContinueOnError visitor keeps it and goes on to the next object.  The
\* locals of printObject are gone.
Returned ==
    /\ pc = "returned"
    /\ errs' = IF ret # NoError THEN Append(errs, PrintError(obj, ret)) ELSE errs
    /\ pc' = "visit"
    /\ obj' = NoObject
    /\ i' = 0
    /\ condElems' = <<>>
    /\ perm' = <<>>
    /\ table' = <<>>
    /\ ret' = NoError
    /\ UNCHANGED <<total, visited, stdout>>
    /\ UNCHANGED fmtVars

Next ==
    \/ Visit
    \/ VisitDone
    \/ ExtractNotSlice
    \/ ExtractNotFound
    \/ ExtractFound
    \/ DecodeNotAMap
    \/ DecodeUnmarshalError
    \/ DecodeAppend
    \/ DecodeDone
    \/ Sort
    \/ Render
    \/ Returned

Spec == Init /\ [][Next]_vars

(***************************************************************************)
(* The ranking alone: printObject has decoded a condition list and is      *)
(* about to sort it.                                                       *)
(***************************************************************************)
InitRank ==
    /\ pc = "sort"
    /\ total = 1
    /\ visited = 1
    /\ \E e \in SeqsUpTo(RankElems, MaxRank) :
          /\ obj = Info(1, [shape |-> "slice", elems |-> e])
          /\ condElems = [k \in 1..Len(e) |-> GenericCondition(e[k])]
          /\ i = Len(e)
    /\ perm = <<>>
    /\ ret = NoError
    /\ stdout = <<>>
    /\ table = <<>>
    /\ errs = <<>>
    /\ noColor = FALSE
    /\ theCond = NoCondition
    /\ detail = <<>>

SpecRank == InitRank /\ [][Sort]_vars

(***************************************************************************)
(* Text.  A string is a sequence of characters; a character is a rune of   *)
(* the text (its UTF-8 encoding is one or more bytes), a colour escape     *)
(* sequence, or a stretch of printable text without a newline that the     *)
(* libraries produce (a relative time, an RFC 3339 time).                  *)
(***************************************************************************)
Rune(c) == [k |-> "rune", c |-> c, t |-> 0]

Newline == Rune("\n")

Esc(code) == [k |-> "esc", c |-> code, t |-> 0]

Text(label, t) == [k |-> "text", c |-> label, t |-> t]

\* the bytes strings.Builder.WriteRune adds for a rune: U+00E9 encodes in two
utf8Len(char) == IF char.c = "U+00E9" THEN 2 ELSE 1

\* (*color.Color).Sprint: the text between the colour's escape sequences,
\* or the text alone when color.NoColor is set
Sprint(colour, str) ==
    IF noColor THEN str ELSE <<Esc(colour)>> \o str \o <<Esc("reset")>>

\* the column formatConditionDetails wraps the message to
WrapWidth == 80

(***************************************************************************)
(* wrapString(input, n, colorize).  result and line are the two            *)
(* strings.Builder; len is line.Len(), the number of bytes written to line.*)
(***************************************************************************)
\* one iteration of the loop over the runes of input
wrapStep(b, char, n, colorize) ==
    LET written == Append(b.line, char)
        len == b.len + utf8Len(char)
    IN  IF len >= n \/ char = Newline
        THEN [result |-> b.result \o Sprint(colorize, written) \o <<Newline>>,
              line |-> <<>>,
              len |-> 0]
        ELSE [result |-> b.result, line |-> written, len |-> len]

\* the iterations for the runes lo..hi of input, in order: those up to the
\* middle rune have run when the later ones begin
RECURSIVE wrapLoop(_, _, _, _, _, _)
wrapLoop(b, input, lo, hi, n, colorize) ==
    IF lo > hi \/ b.len < 0
    THEN b
    ELSE IF lo = hi
         THEN wrapStep(b, input[lo], n, colorize)
         ELSE LET mid == (lo + hi) \div 2
              IN  wrapLoop(wrapLoop(b, input, lo, mid, n, colorize),
                           input, mid + 1, hi, n, colorize)

wrapString(input, n, colorize) ==
    IF n <= 0
    THEN input
    ELSE LET b == wrapLoop([result |-> <<>>, line |-> <<>>, len |-> 0],
                           input, 1, Len(input), n, colorize)
         IN  IF b.len > 0
             THEN b.result \o Sprint(colorize, b.line)
             ELSE b.result

(***************************************************************************)
(* formatConditionDetails(colorize, cond).                                 *)
(***************************************************************************)
\* the closure expressTime: the relative time, a space, and the RFC 3339
\* time in parentheses, in gray
expressTime(t) ==
    <<Text("reltime", t[1]), Rune(" ")>>
    \o Sprint("gray", <<Rune("("), Text("rfc3339", t[1]), Rune(")")>>)

\* strings.TrimSuffix(detail, "\n")
TrimSuffix(str) ==
    IF Len(str) > 0 /\ str[Len(str)] = Newline
    THEN SubSeq(str, 1, Len(str) - 1)
    ELSE str

formatConditionDetails(colorize, cond) ==
    LET reason ==
            IF cond.Reason # <<>>
            THEN Sprint(colorize, Sprint("bold", cond.Reason)) \o <<Newline>>
            ELSE <<>>
        message ==
            IF cond.Message # <<>>
            THEN Sprint(colorize, wrapString(cond.Message, WrapWidth, colorize))
                 \o <<Newline>>
            ELSE <<>>
        transition ==
            IF cond.LastTransitionTime # NilTime
            THEN <<Text("Last Transition: ", 0)>>
                 \o expressTime(cond.LastTransitionTime) \o <<Newline>>
            ELSE <<>>
        update ==
            IF cond.LastUpdateTime # NilTime
            THEN <<Text("Last Update: ", 0)>>
                 \o expressTime(cond.LastUpdateTime) \o <<Newline>>
            ELSE <<>>
        heartbeat ==
            IF cond.LastHeartbeatTime # NilTime
            THEN <<Text("Last Heartbeat: ", 0)>>
                 \o expressTime(cond.LastHeartbeatTime) \o <<Newline>>
            ELSE <<>>
    IN  TrimSuffix(reason \o message \o transition \o update \o heartbeat)

(***************************************************************************)
(* The conditions handed to the formatter.  A message is made of up to     *)
(* MaxRuns runs; a run is one character or WrapWidth times one character,  *)
(* of a one-byte rune or of a two-byte rune, or one newline.               *)
(***************************************************************************)
MaxRuns == 3

Rep(char, n) == [k \in 1..n |-> char]

Runs ==
    {Rep(Rune(c), n) : c \in {"a", "U+00E9"}, n \in {1, WrapWidth}}
    \cup {<<Newline>>}

RECURSIVE Flatten(_)
Flatten(ss) == IF ss = <<>> THEN <<>> ELSE Head(ss) \o Flatten(Tail(ss))

Messages == {Flatten(ss) : ss \in SeqsUpTo(Runs, MaxRuns)}

\* a decoded GenericCondition with all its fields
DetailConditions ==
    [Type : {"Ready"},
     Status : {ConditionTrue, ConditionFalse},
     Reason : {<<>>, <<Text("KubeletReady", 0)>>},
     Message : Messages,
     LastUpdateTime : {NilTime, <<MaxTime>>},
     LastTransitionTime : {NilTime, <<MaxTime>>},
     LastHeartbeatTime : {NilTime, <<MaxTime>>}]

(***************************************************************************)
(* The details of one row: printConditions picks the colour function of    *)
(* the condition and formats its details.                                  *)
(***************************************************************************)
InitDetails ==
    /\ pc = "format"
    /\ total = 1
    /\ visited = 1
    /\ obj = NoObject
    /\ i = 0
    /\ condElems = <<>>
    /\ perm = <<>>
    /\ ret = NoError
    /\ stdout = <<>>
    /\ table = <<>>
    /\ errs = <<>>
    /\ noColor \in BOOLEAN
    /\ theCond \in DetailConditions
    /\ detail = <<>>

FormatDetails ==
    /\ pc = "format"
    /\ detail' = formatConditionDetails(
                    statusColor(theCond.Type, theCond.Status), theCond)
    /\ pc' = "formatted"
    /\ UNCHANGED <<total, visited, obj, i, condElems, perm, ret, stdout, table,
                   errs, noColor, theCond>>

SpecDetails == InitDetails /\ [][FormatDetails]_vars

(***************************************************************************)
(* The vocabulary of the ranking claims, as the specification words it.    *)
(***************************************************************************)
\* Tier 1: readiness first, completion second, every other type last
Bucket(c) == IF c.Type = "Ready" THEN 1 ELSE IF c.Type = "Succeeded" THEN 2 ELSE 3

\* normalize(type, status) on the three status values
SemanticStatus(c) ==
    IF c.Status = "Unknown" THEN "Unknown"
    ELSE IF c.Type \in negativePolarityNodeConditions
         THEN (IF c.Status = "True" THEN "False"
               ELSE IF c.Status = "False" THEN "True" ELSE c.Status)
         ELSE c.Status

\* the freshness timestamp: lastUpdateTime, else lastTransitionTime, else
\* the earliest instant
Freshness(c) ==
    IF c.LastUpdateTime # <<>> THEN c.LastUpdateTime[1]
    ELSE IF c.LastTransitionTime # <<>> THEN c.LastTransitionTime[1]
    ELSE 0

ThreeValued(c) == c.Status \in {"True", "False", "Unknown"}

Severity(c) ==
    CASE SemanticStatus(c) = "False" -> 0
      [] SemanticStatus(c) = "Unknown" -> 1
      [] OTHER -> 2

\* printObject has sorted condElems
Ranked == pc = "print"

Slots == 1..Len(condElems)

(***************************************************************************)
(* C1.  Ranking is stable: two conditions equal on all three tiers (same   *)
(* bucket, same semantic status, same freshness) appear in the ranked      *)
(* output in the order they had in the extracted input.  Stated for        *)
(* conditions that can be told apart.                                      *)
(***************************************************************************)
C1_RankingIsStable ==
    Ranked =>
        \A a, b \in Slots :
            ( /\ a < b
              /\ condElems[a] # condElems[b]
              /\ Bucket(condElems[a]) = Bucket(condElems[b])
              /\ SemanticStatus(condElems[a]) = SemanticStatus(condElems[b])
              /\ Freshness(condElems[a]) = Freshness(condElems[b]) )
            => perm[a] < perm[b]

(***************************************************************************)
(* C2.  Tier-1 override: in the ranked output every "Ready" condition      *)
(* precedes every condition of another type, and every "Succeeded"         *)
(* condition precedes every condition that is neither, whatever the        *)
(* statuses and timestamps.                                                *)
(***************************************************************************)
C2_TypePriorityFirst ==
    Ranked =>
        \A a, b \in Slots :
            /\ (condElems[a].Type = "Ready" /\ condElems[b].Type # "Ready") => a < b
            /\ ( /\ condElems[a].Type = "Succeeded"
                 /\ condElems[b].Type \notin {"Ready", "Succeeded"} ) => a < b

\* [Available=False, Succeeded=Unknown, Ready=True] has been ranked
C2_Witness ==
    /\ Ranked
    /\ Len(condElems) = 3
    /\ perm = <<3, 2, 1>>
    /\ condElems[1].Type = "Ready" /\ condElems[1].Status = "True"
    /\ condElems[2].Type = "Succeeded" /\ condElems[2].Status = "Unknown"
    /\ condElems[3].Type = "Available" /\ condElems[3].Status = "False"

(***************************************************************************)
(* C3.  Tier-2 severity: among three-valued conditions of one bucket the   *)
(* ranked output has every semantic False before every semantic Unknown,   *)
(* and those before every semantic True; a negative-polarity condition     *)
(* with raw True ranks before one with raw False.                          *)
(***************************************************************************)
C3_SemanticSeverity ==
    Ranked =>
        \A a, b \in Slots :
            ( /\ ThreeValued(condElems[a])
              /\ ThreeValued(condElems[b])
              /\ Bucket(condElems[a]) = Bucket(condElems[b])
              /\ Severity(condElems[a]) < Severity(condElems[b]) )
            => a < b

\* [Available=True, MemoryPressure=False, MemoryPressure=True] has been ranked
C3_Witness ==
    /\ Ranked
    /\ Len(condElems) = 3
    /\ perm = <<3, 1, 2>> \/ perm = <<3, 2, 1>>
    /\ condElems[1].Type = "MemoryPressure" /\ condElems[1].Status = "True"
    /\ {condElems[2], condElems[3]} =
          {[condElems[1] EXCEPT !.Status = "False"],
           [condElems[1] EXCEPT !.Type = "Available"]}

(***************************************************************************)
(* C4.  Tier-3 recency: among conditions of one bucket and one semantic    *)
(* status the ranked output is in descending order of freshness, so the    *)
(* more recently updated ranks first and those without a timestamp last.   *)
(* Stated for the conditions whose status is one of the three values.      *)
(***************************************************************************)
C4_RecencyDescending ==
    Ranked =>
        \A a, b \in Slots :
            ( /\ a < b
              /\ ThreeValued(condElems[a])
              /\ ThreeValued(condElems[b])
              /\ Bucket(condElems[a]) = Bucket(condElems[b])
              /\ SemanticStatus(condElems[a]) = SemanticStatus(condElems[b]) )
            => Freshness(condElems[a]) >= Freshness(condElems[b])

ThreeStatuses == {"True", "False", "Unknown"}

\* type strings, inside and outside the negative-polarity set
TypeStrings ==
    negativePolarityNodeConditions
    \cup {"Ready", "Succeeded", "Available", "ContainersReady", ""}

ColorOf(st) ==
    CASE st = "True" -> "green"
      [] st = "False" -> "red"
      [] OTHER -> "gray"

TimeOrAbsent(v) == v.k = "missing" \/ (v.k = "string" /\ v.s = "rfc3339")

\* a condition mapping with a string type, one of the three statuses, and
\* timestamps that are absent or valid
WellFormedEntry(m) ==
    /\ m.isMap
    /\ m.type.k = "string"
    /\ m.status.k = "string" /\ m.status.s \in ThreeStatuses
    /\ TimeOrAbsent(m.lastUpdateTime)
    /\ TimeOrAbsent(m.lastTransitionTime)

WellFormedObject(o) ==
    /\ o.conditions.shape = "slice"
    /\ \A k \in DOMAIN o.conditions.elems : WellFormedEntry(o.conditions.elems[k])

PointerOf(v) == IF v.k = "missing" THEN <<>> ELSE <<v.t>>

NothingEmittedFor(k) == \A e \in DOMAIN stdout : stdout[e].obj # k

\* the header line and then the table of object k are on stdout
RenderedObject(k) ==
    \E a, b \in DOMAIN stdout :
        /\ a < b
        /\ stdout[a].obj = k /\ stdout[a].what = "header"
        /\ stdout[b].obj = k /\ stdout[b].what = "table"

\* an error carrying the identity of object k has been reported
ReportedObject(k) ==
    \E e \in DOMAIN errs :
        /\ errs[e].name = k
        /\ errs[e].kind = Info(k, <<>>).kind
        /\ errs[e].namespace = Info(k, <<>>).namespace
        /\ errs[e].err # NoError

\* printObject has returned for the object being visited
ObjectReturned == pc = "returned"

(***************************************************************************)
(* C5.  invertPolarity over the three statuses: for a negative-polarity    *)
(* type True maps to False and False to True; Unknown maps to Unknown for  *)
(* every type; for every other type the status is returned unchanged.      *)
(* The rows handed to the renderer carry the colour of that status.        *)
(***************************************************************************)
C5_PolarityNormalization ==
    /\ \A ty \in TypeStrings :
          /\ invertPolarity(ty, "Unknown") = "Unknown"
          /\ ty \in negativePolarityNodeConditions =>
                /\ invertPolarity(ty, "True") = "False"
                /\ invertPolarity(ty, "False") = "True"
          /\ ty \notin negativePolarityNodeConditions =>
                \A st \in ThreeStatuses : invertPolarity(ty, st) = st
    /\ \A k \in DOMAIN table :
          table[k].status \in ThreeStatuses =>
              table[k].color =
                  ColorOf(SemanticStatus([Type |-> table[k].type,
                                          Status |-> table[k].status]))

\* rows of MemoryPressure=True (red) and MemoryPressure=Unknown (gray)
C5_Witness ==
    /\ ObjectReturned
    /\ \E a, b \in DOMAIN table :
          /\ table[a] = [color |-> "red", type |-> "MemoryPressure", status |-> "True"]
          /\ table[b] = [color |-> "gray", type |-> "MemoryPressure", status |-> "Unknown"]

(***************************************************************************)
(* C6.  A condition entry whose status is anything other than True, False  *)
(* or Unknown (empty, missing, misspelled) is a decode failure: printObject*)
(* returns an error for the object.                                        *)
(***************************************************************************)
C6_BadStatusIsDecodeFailure ==
    ( /\ ObjectReturned
      /\ obj.conditions.shape = "slice"
      /\ \E k \in DOMAIN obj.conditions.elems :
            /\ obj.conditions.elems[k].isMap
            /\ ~( /\ obj.conditions.elems[k].status.k = "string"
                  /\ obj.conditions.elems[k].status.s \in ThreeStatuses ) )
    => ret # NoError

(***************************************************************************)
(* C7.  Rendering of one object is all-or-nothing: whenever printObject    *)
(* returns an error, nothing has been emitted for that object, neither the *)
(* header line nor a row, whatever the index of the bad element.           *)
(***************************************************************************)
C7_AllOrNothing ==
    /\ (ObjectReturned /\ ret # NoError) =>
          (NothingEmittedFor(obj.name) /\ table = <<>>)
    /\ \A e \in DOMAIN errs : NothingEmittedFor(errs[e].name)

\* the second object fails at its last entry, after a well-formed one, and
\* the first object has been rendered
C7_Witness ==
    /\ ObjectReturned
    /\ visited = 2
    /\ ret = <<"failed to unmarshal condition#%d", 1>>
    /\ Len(obj.conditions.elems) = 2
    /\ Len(condElems) = 1
    /\ RenderedObject(1)

(***************************************************************************)
(* C8.  A failure on one object does not stop the run: every object of the *)
(* sequence is visited, a well-formed one is rendered, and a failure is    *)
(* reported with the kind, namespace and name of the failing object.       *)
(***************************************************************************)
C8_ContinueOnError ==
    /\ pc = "done" => visited = total
    /\ \A k \in 1..visited :
          (k < visited \/ pc \in {"visit", "done"}) =>
              (RenderedObject(k) # ReportedObject(k))
    /\ (ObjectReturned /\ WellFormedObject(obj)) =>
          (ret = NoError /\ RenderedObject(obj.name))
    /\ (ObjectReturned /\ ret # NoError) => ~RenderedObject(obj.name)

\* the first of two objects failed and the second was rendered
C8_Witness ==
    /\ pc = "done"
    /\ total = 2
    /\ ReportedObject(1)
    /\ RenderedObject(2)

(***************************************************************************)
(* C9.  For an object whose status.conditions is a list of well-formed     *)
(* condition mappings (optional fields may be absent) printObject returns  *)
(* no error and the rows handed to the renderer are a permutation of the   *)
(* input conditions: one row per condition, none dropped or duplicated.    *)
(***************************************************************************)
C9_RowsArePermutation ==
    (ObjectReturned /\ WellFormedObject(obj)) =>
        LET in == obj.conditions.elems
        IN  /\ ret = NoError
            /\ Len(table) = Len(in)
            /\ Len(condElems) = Len(in)
            /\ \E p \in PermsOf(Len(in)) :
                  \A k \in 1..Len(in) :
                      /\ table[k].type = in[p[k]].type.s
                      /\ table[k].status = in[p[k]].status.s
                      /\ condElems[k].Type = in[p[k]].type.s
                      /\ condElems[k].Status = in[p[k]].status.s
                      /\ condElems[k].LastUpdateTime = PointerOf(in[p[k]].lastUpdateTime)
                      /\ condElems[k].LastTransitionTime =
                            PointerOf(in[p[k]].lastTransitionTime)

\* [MemoryPressure=False without timestamps, Ready=True] was rendered as
\* [Ready, MemoryPressure]
C9_Witness ==
    /\ ObjectReturned
    /\ WellFormedObject(obj)
    /\ Len(obj.conditions.elems) = 2
    /\ obj.conditions.elems[1].lastUpdateTime = Missing
    /\ obj.conditions.elems[1].type.s = "MemoryPressure"
    /\ perm = <<2, 1>>
    /\ table[1].type = "Ready"
    /\ table[2].type = "MemoryPressure"

(***************************************************************************)
(* The comparator as a relation over the conditions of one list.           *)
(***************************************************************************)
\* neither condition is less than the other
Tied(a, b) == ~byCondition(a, b) /\ ~byCondition(b, a)

\* the conditions of the list handed to the ranking
Listed == {condElems[k] : k \in Slots}

(***************************************************************************)
(* C14.  byCondition is a strict weak ordering over every condition the    *)
(* extractor can produce, any accepted status string included: it is       *)
(* irreflexive, asymmetric and transitive, and being tied is transitive.   *)
(***************************************************************************)
C14_StrictWeakOrdering ==
    \A a, b, c \in Listed :
        /\ ~byCondition(a, a)
        /\ byCondition(a, b) => ~byCondition(b, a)
        /\ (byCondition(a, b) /\ byCondition(b, c)) => byCondition(a, c)
        /\ (Tied(a, b) /\ Tied(b, c)) => Tied(a, c)

(***************************************************************************)
(* The vocabulary of the claims about the details column.                  *)
(***************************************************************************)
\* formatConditionDetails has returned the details of the condition
Formatted == pc = "formatted"

\* the text a terminal shows: the characters that are no escape sequence
Visible(str) == SelectSeq(str, LAMBDA x : x.k # "esc")

\* the lines of a text when a line ends at a newline or, failing that,
\* after n runes; the newline is no part of the line
LineStep(b, char, n) ==
    IF char = Newline
    THEN [lines |-> Append(b.lines, b.line), line |-> <<>>]
    ELSE LET longer == Append(b.line, char)
         IN  IF Len(longer) >= n
             THEN [lines |-> Append(b.lines, longer), line |-> <<>>]
             ELSE [lines |-> b.lines, line |-> longer]

RECURSIVE LineLoop(_, _, _, _, _)
LineLoop(b, str, lo, hi, n) ==
    IF lo > hi \/ Len(b.line) < 0
    THEN b
    ELSE IF lo = hi
         THEN LineStep(b, str[lo], n)
         ELSE LET mid == (lo + hi) \div 2
              IN  LineLoop(LineLoop(b, str, lo, mid, n), str, mid + 1, hi, n)

RuneLines(str, n) ==
    LET b == LineLoop([lines |-> <<>>, line |-> <<>>], str, 1, Len(str), n)
    IN  IF b.line # <<>> THEN Append(b.lines, b.line) ELSE b.lines

\* the lines of a text as a terminal breaks it: at its newlines only
PhysicalLines(str) == RuneLines(str, Len(str) + 1)

\* the colour function printConditions hands to the formatter
ColorFn == statusColor(theCond.Type, theCond.Status)

\* the wrapped message as it is shown
ShownMessage == Visible(wrapString(theCond.Message, WrapWidth, ColorFn))

\* the line of a timestamp as it is shown
ShownTime(label, t) ==
    <<Text(label, 0), Text("reltime", t[1]), Rune(" "),
      Rune("("), Text("rfc3339", t[1]), Rune(")")>>

\* the elements of the details that are present, in the order Reason,
\* Message, Last Transition, Last Update, Last Heartbeat
PresentElements ==
    (IF theCond.Reason # <<>> THEN <<theCond.Reason>> ELSE <<>>)
    \o (IF theCond.Message # <<>> THEN <<ShownMessage>> ELSE <<>>)
    \o (IF theCond.LastTransitionTime # NilTime
        THEN <<ShownTime("Last Transition: ", theCond.LastTransitionTime)>>
        ELSE <<>>)
    \o (IF theCond.LastUpdateTime # NilTime
        THEN <<ShownTime("Last Update: ", theCond.LastUpdateTime)>>
        ELSE <<>>)
    \o (IF theCond.LastHeartbeatTime # NilTime
        THEN <<ShownTime("Last Heartbeat: ", theCond.LastHeartbeatTime)>>
        ELSE <<>>)

\* the elements joined by single newlines
RECURSIVE Joined(_)
Joined(els) ==
    IF els = <<>> THEN <<>>
    ELSE IF Len(els) = 1 THEN els[1]
    ELSE els[1] \o <<Newline>> \o Joined(Tail(els))

(***************************************************************************)
(* C11.  wrapString at width 80 is rune-accurate: the wrapped message has  *)
(* a line break after every 80 runes (runes, not bytes) or at an embedded  *)
(* newline, whichever comes first, and no other line; 240 printable        *)
(* characters give 3 lines of 80.                                          *)
(***************************************************************************)
C11_WrapIsRuneAccurate ==
    Formatted =>
        PhysicalLines(ShownMessage) = RuneLines(theCond.Message, WrapWidth)

(***************************************************************************)
(* C12.  The details are exactly the present elements in the order Reason, *)
(* Message, Last Transition, Last Update, Last Heartbeat, joined by single *)
(* newlines: there is no empty line between elements, the details do not   *)
(* end with a newline, and a condition with none of the elements formats   *)
(* to the empty string.                                                    *)
(***************************************************************************)
C12_PresentElementsJoined ==
    Formatted =>
        /\ Visible(detail) = Joined(PresentElements)
        /\ \A k \in 1..Len(PresentElements) :
              /\ Head(PresentElements[k]) # Newline
              /\ PresentElements[k][Len(PresentElements[k])] # Newline
        /\ (PresentElements = <<>> => detail = <<>>)

(***************************************************************************)
(* C13.  The message block of the details is parenthesized: for a          *)
(* non-empty message the wrapped, colorized text stands between an opening *)
(* "(" and a closing ")".                                                  *)
(***************************************************************************)
C13_MessageParenthesized ==
    (Formatted /\ theCond.Message # <<>>) =>
        \E open, close \in 1..Len(Visible(detail)) :
            /\ open < close
            /\ Visible(detail)[open] = Rune("(")
            /\ Visible(detail)[close] = Rune(")")
            /\ SubSeq(Visible(detail), open + 1, close - 1) = ShownMessage
====
